---- MODULE Spec2Model ----
(***************************************************************************)
(* A model of the request runtime of azure-sdk-for-python:                 *)
(*   - AsyncPipelineClient: assembly of the policy chain, send_request     *)
(*     and the _Coroutine handle (azure/core/_pipeline_client_async.py);   *)
(*   - the begin_* long-running operations and the paged listings of the   *)
(*     generated operation classes (synapse DataFlowOperations,            *)
(*     desktopvirtualization ApplicationGroupsOperations);                 *)
(*   - the Retry Policy, which the sources only import: it is modelled     *)
(*     from the design document.                                           *)
(* Python's None is the string "None" where the value is a string, and a   *)
(* flag beside the value where it is a list or a record.  Python indexes   *)
(* from 0 and uses -1 for "not found"; sequences here index from 1 and     *)
(* use 0 for "not found".                                                  *)
(***************************************************************************)
EXTENDS Integers, Sequences, FiniteSets, TLC

VARIABLES
    client,     \* the AsyncPipelineClient under construction / constructed
    sent,       \* number of requests handed to the pipeline of `client`
    handles,    \* the _Coroutine handles send_request has returned
    responses,  \* the response objects the pipeline has produced
    lro,        \* begin_* calls of one logical long-running operation
    pager,      \* one paged listing: the ItemPaged iterator and its server
    retry,      \* one logical call going through the Retry Policy
    poll,       \* one server-side operation and the pollers that track it
    ops         \* the direct (non-polled) operation calls: a count and the last

vars == <<client, sent, handles, responses, lro, pager, retry, poll, ops>>

(***************************************************************************)
(* Bounds of the model.                                                    *)
(***************************************************************************)
MaxPolicies == 2
MaxExtra == 2
MaxSent == 2

(***************************************************************************)
(* Small helpers on sequences.                                             *)
(***************************************************************************)
SeqsUpTo(S, n) == UNION {[1..k -> S] : k \in 0..n}

Range(s) == {s[i] : i \in 1..Len(s)}

(***************************************************************************)
(* Policies.  A policy object is a record: `kind` says whether it is an    *)
(* instance of AsyncRetryPolicy (the isinstance test of _build_pipeline),  *)
(* `origin` and `name` identify the object: which argument or which slot   *)
(* of the default chain it comes from.                                     *)
(***************************************************************************)
PolicyKinds == {"retry", "other"}

UserNames == <<"u1", "u2", "u3", "u4">>

\* the list a caller passes for argument `origin`, given the kinds of its elements
UserList(origin, kinds) ==
    [i \in 1..Len(kinds) |-> [origin |-> origin, name |-> UserNames[i], kind |-> kinds[i]]]

DefaultPolicy(name, kind) == [origin |-> "default", name |-> name, kind |-> kind]

isinstance_AsyncRetryPolicy(policy) == policy.kind = "retry"

(***************************************************************************)
(* _build_pipeline, lines 175-245.                                         *)
(* An argument that may be a list or a single policy is a record           *)
(* [iterable, items]: a single policy p is [iterable |-> FALSE,            *)
(* items |-> <<p>>].  `policies` is [given, items]: given = FALSE is None. *)
(***************************************************************************)

\* lines 189-192, 202-205, 215-218, 221-224: list(x) of an iterable, [x] otherwise
as_list(arg) == arg.items

\* lines 182-188
default_head ==
    << DefaultPolicy("RequestIdPolicy", "other"),
       DefaultPolicy("headers_policy", "other"),
       DefaultPolicy("user_agent_policy", "other"),
       DefaultPolicy("proxy_policy", "other"),
       DefaultPolicy("ContentDecodePolicy", "other") >>

\* lines 194-201
default_middle ==
    << DefaultPolicy("redirect_policy", "other"),
       DefaultPolicy("retry_policy", "retry"),
       DefaultPolicy("authentication_policy", "other"),
       DefaultPolicy("custom_hook_policy", "other") >>

\* lines 207-213
default_tail ==
    << DefaultPolicy("logging_policy", "other"),
       DefaultPolicy("DistributedTracingPolicy", "other"),
       DefaultPolicy("http_logging_policy", "other") >>

\* a slip: the search stops at the first Retry Policy instead of the last
index_of_retry_first(policies) ==
    IF \E i \in 1..Len(policies) : isinstance_AsyncRetryPolicy(policies[i])
    THEN CHOOSE i \in 1..Len(policies) :
            /\ isinstance_AsyncRetryPolicy(policies[i])
            /\ \A j \in 1..(i-1) : ~isinstance_AsyncRetryPolicy(policies[j])
    ELSE 0

\* a slip: the index starts at the first position instead of "not found"
index_of_retry_never_missing(policies) ==
    IF \E i \in 1..Len(policies) : isinstance_AsyncRetryPolicy(policies[i])
    THEN CHOOSE i \in 1..Len(policies) :
            /\ isinstance_AsyncRetryPolicy(policies[i])
            /\ \A j \in (i+1)..Len(policies) : ~isinstance_AsyncRetryPolicy(policies[j])
    ELSE IF Len(policies) > 0 THEN 1 ELSE 0

\* lines 226-229: the loop keeps the index of the last AsyncRetryPolicy; 0 is Python's -1
index_of_retry(policies) ==
    IF \E i \in 1..Len(policies) : isinstance_AsyncRetryPolicy(policies[i])
    THEN CHOOSE i \in 1..Len(policies) :
            /\ isinstance_AsyncRetryPolicy(policies[i])
            /\ \A j \in (i+1)..Len(policies) : ~isinstance_AsyncRetryPolicy(policies[j])
    ELSE 0

\* the closing policies are added before the redirect and retry policies
build_default_tail_before_retry(per_call_policies, per_retry_policies) ==
    default_head \o as_list(per_call_policies) \o default_tail \o default_middle
        \o as_list(per_retry_policies)

\* lines 181-213: policies is None
build_default(per_call_policies, per_retry_policies) ==
    default_head \o as_list(per_call_policies) \o default_middle
        \o as_list(per_retry_policies) \o default_tail

\* policies_2, the part after the Retry Policy, is not put back
build_custom_drops_the_rest(policies, per_call_policies, per_retry_policies) ==
    LET with_per_call == as_list(per_call_policies) \o policies
        per_retry_policies_list == as_list(per_retry_policies)
        idx == index_of_retry(with_per_call)
    IN  IF Len(per_retry_policies_list) > 0
        THEN IF idx = 0
             THEN [error |-> "ValueError", policies |-> <<>>]
             ELSE [error |-> "None",
                   policies |-> SubSeq(with_per_call, 1, idx) \o per_retry_policies_list]
        ELSE [error |-> "None", policies |-> with_per_call]

\* lines 214-238: the result is [error, policies]; error "None" when none is raised
build_custom(policies, per_call_policies, per_retry_policies) ==
    LET with_per_call == as_list(per_call_policies) \o policies          \* 219-220
        per_retry_policies_list == as_list(per_retry_policies)           \* 221-224
        idx == index_of_retry(with_per_call)
    IN  IF Len(per_retry_policies_list) > 0
        THEN IF idx = 0
             THEN [error |-> "ValueError", policies |-> <<>>]            \* 230-233
             ELSE [error |-> "None",
                   policies |-> SubSeq(with_per_call, 1, idx)            \* 234-238
                                  \o per_retry_policies_list
                                  \o SubSeq(with_per_call, idx + 1, Len(with_per_call))]
        ELSE [error |-> "None", policies |-> with_per_call]

\* a slip: per_call_policies_list is the caller's list itself, not a copy
bound_to_the_argument(local, arg) ==
    IF local = "per_call_policies_list" /\ arg.iterable THEN "per_call_policies" ELSE "new"

\* the list object a local name of _build_pipeline is bound to: list(x) at
\* 216 and 222, [x] at 218 and 224, the literal at 182 and the slices at
\* 234-235 all make a new list
bound_to(local, arg) == "new"

\* the in-place changes _build_pipeline makes, in order: the local name of
\* the list that is extended, the object it is bound to and what is added
extensions(kwargs) ==
    IF ~kwargs.policies.given
    THEN << [local |-> "policies", object |-> "new",                         \* 189-213
             items |-> SubSeq(build_default(kwargs.per_call_policies,
                                            kwargs.per_retry_policies),
                              Len(default_head) + 1,
                              Len(build_default(kwargs.per_call_policies,
                                                kwargs.per_retry_policies)))] >>
    ELSE LET with_per_call == as_list(kwargs.per_call_policies) \o kwargs.policies.items
             idx == index_of_retry(with_per_call)
         IN  << [local |-> "per_call_policies_list",                          \* 219
                 object |-> bound_to("per_call_policies_list", kwargs.per_call_policies),
                 items |-> kwargs.policies.items] >>
             \o (IF Len(as_list(kwargs.per_retry_policies)) > 0 /\ idx # 0
                 THEN << [local |-> "policies_1",                             \* 236-237
                          object |-> bound_to("policies_1", kwargs.policies),
                          items |-> as_list(kwargs.per_retry_policies)
                                      \o SubSeq(with_per_call, idx + 1, Len(with_per_call))] >>
                 ELSE <<>>)

\* what has been added to the caller's object `name` by the extensions
RECURSIVE added_to(_, _)
added_to(name, exts) ==
    IF exts = <<>> THEN <<>>
    ELSE (IF exts[1].object = name THEN exts[1].items ELSE <<>>)
            \o added_to(name, Tail(exts))

\* the caller's three arguments as _build_pipeline leaves them
arguments_after(kwargs) ==
    [kwargs EXCEPT
        !.policies.items = @ \o added_to("policies", extensions(kwargs)),
        !.per_call_policies.items = @ \o added_to("per_call_policies", extensions(kwargs)),
        !.per_retry_policies.items = @ \o added_to("per_retry_policies", extensions(kwargs))]

\* lines 175-245
build_pipeline(kwargs) ==
    IF ~kwargs.policies.given
    THEN [error |-> "None",
          policies |-> build_default(kwargs.per_call_policies, kwargs.per_retry_policies)]
    ELSE build_custom(kwargs.policies.items, kwargs.per_call_policies,
                      kwargs.per_retry_policies)

(***************************************************************************)
(* The keyword arguments a caller can construct the client with.           *)
(***************************************************************************)
PolicyListArgs(origin, n) ==
    {[iterable |-> TRUE, items |-> UserList(origin, ks)] : ks \in SeqsUpTo(PolicyKinds, n)}
    \cup {[iterable |-> FALSE, items |-> UserList(origin, <<k>>)] : k \in PolicyKinds}

PoliciesArgs ==
    {[given |-> FALSE, items |-> <<>>]}
    \cup {[given |-> TRUE, items |-> UserList("policies", ks)] :
            ks \in SeqsUpTo(PolicyKinds, MaxPolicies)}

AllKwargs ==
    [pipeline : BOOLEAN,
     policies : PoliciesArgs,
     per_call_policies : PolicyListArgs("per_call", MaxExtra),
     per_retry_policies : PolicyListArgs("per_retry", MaxExtra)]

NoKwargs ==
    [pipeline |-> FALSE,
     policies |-> [given |-> FALSE, items |-> <<>>],
     per_call_policies |-> [iterable |-> TRUE, items |-> <<>>],
     per_retry_policies |-> [iterable |-> TRUE, items |-> <<>>]]

NoClient ==
    [state |-> "none", error |-> "None", own_pipeline |-> FALSE,
     policies |-> <<>>, kwargs |-> NoKwargs, kwargs_after |-> NoKwargs]


(***************************************************************************)
(* AsyncPipelineClient.__init__, lines 156-163: a supplied `pipeline` is   *)
(* taken as it is, otherwise the pipeline is built; when the build raises, *)
(* the constructor raises and no client object exists.  `kwargs` keeps the *)
(* caller's arguments as they were passed, `kwargs_after` as the call has  *)
(* left them.                                                              *)
(***************************************************************************)
client_init(kwargs) ==
    IF kwargs.pipeline
    THEN [state |-> "built", error |-> "None", own_pipeline |-> FALSE,
          policies |-> <<>>, kwargs |-> kwargs, kwargs_after |-> kwargs]  \* 160-161
    ELSE LET built == build_pipeline(kwargs)                              \* 163
         IN  IF built.error = "None"
             THEN [state |-> "built", error |-> "None", own_pipeline |-> TRUE,
                   policies |-> built.policies, kwargs |-> kwargs,
                   kwargs_after |-> arguments_after(kwargs)]
             ELSE [state |-> "failed", error |-> built.error, own_pipeline |-> FALSE,
                   policies |-> <<>>, kwargs |-> kwargs,
                   kwargs_after |-> arguments_after(kwargs)]

\* the caller constructs the client with keyword arguments drawn from S
ClientInitOver(S) ==
    /\ client.state = "none"
    /\ \E kwargs \in S : client' = client_init(kwargs)
    /\ UNCHANGED <<sent, handles, responses, lro, pager, retry, poll, ops>>

\* lines 247-249: a request is handed to the pipeline of the constructed client
PipelineRun ==
    /\ client.state = "built"
    /\ sent < MaxSent
    /\ sent' = sent + 1
    /\ UNCHANGED <<client, handles, responses, lro, pager, retry, poll, ops>>

(***************************************************************************)
(* _Coroutine, lines 66-124, and send_request, lines 254-272.              *)
(* self._wrapped is a coroutine object: it runs when it is first awaited,  *)
(* and Python raises RuntimeError when a coroutine object is awaited again *)
(* (while it runs, or after it has finished).  A handle is                 *)
(*   wrapped : "created", "running" or "finished", the coroutine object;   *)
(*   waiter  : who is suspended on it: "none", "await" (a plain await) or  *)
(*             "aenter" (the await of __aenter__, line 117);               *)
(*   response: self._response, an index into `responses`, 0 for None;      *)
(*   scope   : "out" (no async-with body entered), "in", "left", and       *)
(*             left_by, how the body was left: "normal" or "error";        *)
(*   runs    : how many times the body of _make_pipeline_call ran;         *)
(*   results : what each completed await of the handle produced.           *)
(***************************************************************************)
MaxHandles == 1
MaxAwaits == 2
MaxCloses == 1

\* the number of calls in progress at once through one client
MaxCalls == 2

Statuses == {200, 404, 500}

NewHandle(return_pipeline_response) ==
    [wrapped |-> "created", waiter |-> "none", response |-> 0, scope |-> "out",
     left_by |-> "none", runs |-> 0, results |-> <<>>, close_calls |-> 0, close_errors |-> 0,
     return_pipeline_response |-> return_pipeline_response]

Outcome(kind, resp) == [kind |-> kind, resp |-> resp]

\* lines 271-272: the coroutine object is created, nothing runs yet; the
\* caller holds at most `limit` handles
send_request_of(limit) ==
    /\ client.state = "built"
    /\ Len(handles) < limit
    /\ \E rpr \in BOOLEAN : handles' = Append(handles, NewHandle(rpr))
    /\ UNCHANGED <<client, sent, responses, lro, pager, retry, poll, ops>>

send_request == send_request_of(MaxHandles)

\* lines 113-114 (and 117 through __aenter__): self._wrapped.__await__()
coroutine_await(hd, via) ==
    IF hd.wrapped = "created"
    THEN [hd EXCEPT !.wrapped = "running", !.waiter = via, !.runs = @ + 1]
    ELSE [hd EXCEPT !.results = Append(@, Outcome("RuntimeError", 0))]

\* the caller awaits the handle (via = "await") or enters it with async with
\* (via = "aenter"); the first await starts the pipeline call
AwaitHandle(h, via) ==
    /\ h \in 1..Len(handles)
    /\ Len(handles[h].results) + (IF handles[h].waiter = "none" THEN 0 ELSE 1) < MaxAwaits
    /\ LET after == coroutine_await(handles[h], via)
       IN  /\ after.runs > handles[h].runs => sent < MaxSent
           /\ handles' = [handles EXCEPT ![h] = after]
           /\ sent' = sent + (after.runs - handles[h].runs)
    /\ UNCHANGED <<client, responses, lro, pager, retry, poll, ops>>

\* lines 250-252: the pipeline response itself, or its http_response
returned_object(return_pipeline_response) ==
    IF return_pipeline_response THEN "pipeline_response" ELSE "http_response"

NewResponse(h, status, returned) ==
    [handle |-> h, status |-> status, returned |-> returned, closes |-> 0, exit_closes |-> 0]

\* a slip: the arguments of a call are kept on the client, where the call
\* made last overwrites them
call_context_on_the_client(hs, h) == hs[Len(hs)]

\* lines 247-248 and 271: request and kwargs are arguments of the coroutine
\* _make_pipeline_call, held by the coroutine object of the call itself
call_context(hs, h) == hs[h]

\* the status of the response is checked, and an error status raises
make_pipeline_call_raises_for_status(r, status) ==
    IF status >= 400 THEN Outcome("HttpResponseError", r) ELSE Outcome("response", r)

\* lines 247-252: the coroutine returns what the pipeline returned; the
\* status of the response is not looked at
make_pipeline_call(r, status) == Outcome("response", r)

\* lines 247-252 complete with a response; line 117-118 store it when the
\* waiter is __aenter__, and the async-with body is entered
PipelineReturn(h, status) ==
    /\ h \in 1..Len(handles)
    /\ handles[h].wrapped = "running"
    /\ LET r == Len(responses) + 1
       IN  /\ responses' = Append(responses,
                 NewResponse(h, status,
                     returned_object(call_context(handles, h).return_pipeline_response)))
           /\ handles' = [handles EXCEPT ![h] =
                 [@ EXCEPT !.wrapped = "finished",
                           !.waiter = "none",
                           !.results = Append(@, make_pipeline_call(r, status)),
                           !.response = IF handles[h].waiter = "aenter"
                                           /\ make_pipeline_call(r, status).kind = "response"
                                        THEN r ELSE @,
                           !.scope = IF handles[h].waiter = "aenter" /\ @ = "out"
                                        /\ make_pipeline_call(r, status).kind = "response"
                                     THEN "in" ELSE @]]
    /\ UNCHANGED <<client, sent, lro, pager, retry, poll, ops>>

\* line 249 raises (a failure of the transport): the await raises, no response
PipelineRaise(h) ==
    /\ h \in 1..Len(handles)
    /\ handles[h].wrapped = "running"
    /\ handles' = [handles EXCEPT ![h] =
          [@ EXCEPT !.wrapped = "finished", !.waiter = "none",
                    !.results = Append(@, Outcome("PipelineError", 0))]]
    /\ UNCHANGED <<client, sent, responses, lro, pager, retry, poll, ops>>

\* the response's own __aexit__: it releases the resource by calling close()
response_aexit(resps, r) ==
    [resps EXCEPT ![r] = [@ EXCEPT !.closes = @ + 1, !.exit_closes = @ + 1]]

\* the response's own close()
response_close(resps, r) ==
    [resps EXCEPT ![r] = [@ EXCEPT !.closes = @ + 1]]

\* a slip: leaving the scope forgets the response
coroutine_aexit_noop(hd, resps) == resps

\* lines 120-121: await self._response.__aexit__(*args)
coroutine_aexit(hd, resps) == response_aexit(resps, hd.response)

\* the async-with body is left, normally or by an error raised in it
ScopeExit(h, how) ==
    /\ h \in 1..Len(handles)
    /\ handles[h].scope = "in"
    /\ how \in {"normal", "error"}
    /\ responses' = coroutine_aexit(handles[h], responses)
    /\ handles' = [handles EXCEPT ![h] = [@ EXCEPT !.scope = "left", !.left_by = how]]
    /\ UNCHANGED <<client, sent, lro, pager, retry, poll, ops>>

\* lines 123-124: await self._response.close(); on None it is an AttributeError
HandleClose(h) ==
    /\ h \in 1..Len(handles)
    /\ handles[h].close_calls < MaxCloses
    /\ IF handles[h].response = 0
       THEN /\ handles' = [handles EXCEPT ![h] =
                  [@ EXCEPT !.close_calls = @ + 1, !.close_errors = @ + 1]]
            /\ UNCHANGED responses
       ELSE /\ handles' = [handles EXCEPT ![h] = [@ EXCEPT !.close_calls = @ + 1]]
            /\ responses' = response_close(responses, handles[h].response)
    /\ UNCHANGED <<client, sent, lro, pager, retry, poll, ops>>


(***************************************************************************)
(* The begin_* operations of DataFlowOperations, lines 278-352 (create or  *)
(* update), 465-525 (delete) and 580-647 (rename), with their initial      *)
(* calls, lines 220-274, 420-461 and 529-576.                              *)
(* `lro` counts the calls made for one logical operation and keeps the     *)
(* last call: its arguments, whether it issued the initial request, and    *)
(* how it ended.                                                           *)
(***************************************************************************)
MaxBegin == 3

BeginOps == {"create_or_update", "delete", "rename"}

\* continuation_token: absent (None), the empty string, or a saved token
ContTokens == {"None", "", "token"}

\* polling: True, False, or the caller's own polling method
PollingArgs == {"True", "False", "custom"}

InitialStatuses == {200, 201, 202, 204, 304, 401, 404, 409, 500}

\* lines 263, 456, 571: the statuses the initial call accepts
initial_success(op) ==
    IF op = "delete" THEN {200, 202, 204} ELSE {200, 202}

\* lines 223-228 with map_error and the raise that follows it (264-265)
error_for(status) ==
    CASE status = 401 -> "ClientAuthenticationError"
      [] status = 404 -> "ResourceNotFoundError"
      [] status = 409 -> "ResourceExistsError"
      [] status = 304 -> "ResourceNotModifiedError"
      [] OTHER -> "HttpResponseError"

\* polling=False is not told apart from polling=True
polling_method_false_as_default(polling) ==
    CASE polling \in {"True", "False"} -> "LROBasePolling"
      [] OTHER -> "custom"

\* lines 337-344
polling_method(polling) ==
    CASE polling = "True" -> "LROBasePolling"
      [] polling = "False" -> "NoPolling"
      [] OTHER -> "custom"

\* a slip: the initial call is made whatever the continuation token
needs_initial_always(cont_token) == TRUE

\* lines 313, 491, 611: if cont_token is None
needs_initial(cont_token) == cont_token = "None"

\* lines 345, 518, 640: if cont_token (None and "" are both false)
resumes(cont_token) == cont_token \notin {"None", ""}

\* one begin_* call: [issued_initial, outcome, method]
begin(op, cont_token, polling, status) ==
    LET issued == needs_initial(cont_token)
        raised == issued /\ status \notin initial_success(op)
    IN  [op |-> op, cont_token |-> cont_token, polling |-> polling,
         status |-> IF issued THEN status ELSE 0,
         issued_initial |-> issued,
         method |-> IF raised THEN "None" ELSE polling_method(polling),
         outcome |-> IF raised THEN error_for(status)
                     ELSE IF resumes(cont_token) THEN "resumed"        \* 346-351
                     ELSE IF issued THEN "poller"                      \* 352
                     ELSE "UnboundLocalError"]                         \* 352, raw_result unset

NoCall ==
    [op |-> "none", cont_token |-> "None", polling |-> "True", status |-> 0,
     issued_initial |-> FALSE, method |-> "None", outcome |-> "none"]

NoLro == [n_calls |-> 0, without_token |-> 0, initial_requests |-> 0, last |-> NoCall]

Begin(op, cont_token, polling, status) ==
    /\ lro.n_calls < MaxBegin
    /\ LET call == begin(op, cont_token, polling, status)
       IN  lro' = [n_calls |-> lro.n_calls + 1,
                   without_token |-> lro.without_token + (IF cont_token = "None" THEN 1 ELSE 0),
                   initial_requests |-> lro.initial_requests
                                          + (IF call.issued_initial THEN 1 ELSE 0),
                   last |-> call]
    /\ UNCHANGED <<client, sent, handles, responses, pager, retry, poll, ops>>


(***************************************************************************)
(* Paged listings: list_by_resource_group / list_by_subscription of        *)
(* ApplicationGroupsOperations (lines 697-799, 803-884) and                *)
(* get_data_flows_by_workspace of DataFlowOperations (lines 651-724).      *)
(* A continuation link is [kind, query]: kind "None" (no next_link),       *)
(* "empty" (the empty string) or "url"; query is the sequence of the       *)
(* link's key=value pairs as they stand in the URL (percent-encoded).      *)
(***************************************************************************)
MaxPages == 3
MaxItems == 2
MaxParams == 2

\* the API versions in play: the client configuration's, one the caller
\* passes for a single call, and one a server embeds in its links
ConfigApiVersion == "v-config"

CallApiVersions == {"v-config", "v-caller"}

\* the query parameters a server may put on a link
LinkParams ==
    { [key |-> "api-version", value |-> "v-link"],
      [key |-> "skip", value |-> "5"],
      [key |-> "skip", value |-> ""],
      [key |-> "Skip", value |-> "7"],
      [key |-> "filter", value |-> "a%2Fb"] }

LinkQueries == SeqsUpTo(LinkParams, MaxParams)

NoneLink == [kind |-> "None", query |-> <<>>]

LinksOver(queries) ==
    {NoneLink, [kind |-> "empty", query |-> <<>>]}
    \cup {[kind |-> "url", query |-> q] : q \in queries}

\* every link, for the specification that follows links
Links == LinksOver(LinkQueries)

\* links without parameters of their own, or with the server's api-version
PlainLinks == LinksOver({<<>>, << [key |-> "api-version", value |-> "v-link"] >>})

\* str.lower() on the keys in play
lower(key) == IF key = "Skip" THEN "skip" ELSE key

\* the decoding parse_qs applies to a value: percent-escapes, and "+" for a space
unquote_plus(value) ==
    CASE value = "a%2Fb" -> "a/b"
      [] value = "a+b" -> "a b"
      [] OTHER -> value

\* urllib.parse.quote with its default safe="/"
quote(value) ==
    CASE value = "a b" -> "a%20b"
      [] OTHER -> value

\* dict[key].append(value) of parse_qs; a dict keeps the order of first insertion
RECURSIVE add_value(_, _, _)
add_value(d, key, value) ==
    IF d = <<>> THEN << [key |-> key, values |-> <<value>>] >>
    ELSE IF d[1].key = key
         THEN << [key |-> key, values |-> Append(d[1].values, value)] >> \o Tail(d)
         ELSE << d[1] >> \o add_value(Tail(d), key, value)

\* urllib.parse.parse_qs(query), line 766: keep_blank_values is False, so a
\* pair whose value is blank is dropped; the values of one key form a list
RECURSIVE parse_qs(_)
parse_qs(query) ==
    IF query = <<>> THEN <<>>
    ELSE LET rest == parse_qs(SubSeq(query, 1, Len(query) - 1))
             p == query[Len(query)]
         IN  IF p.value = "" THEN rest
             ELSE add_value(rest, p.key, unquote_plus(p.value))

\* line 765: [urllib.parse.quote(v) for v in value]
quote_all(values) == [i \in 1..Len(values) |-> quote(values[i])]

\* case_insensitive_dict.__setitem__: the entry is stored under key.lower(),
\* with the key as last written
RECURSIVE set_item(_, _, _)
set_item(d, key, values) ==
    IF d = <<>> THEN << [key |-> key, values |-> values] >>
    ELSE IF lower(d[1].key) = lower(key)
         THEN << [key |-> key, values |-> values] >> \o Tail(d)
         ELSE << d[1] >> \o set_item(Tail(d), key, values)

\* lines 763-768: case_insensitive_dict({key: [quote(v) ...] for key, value in parse_qs(...)})
RECURSIVE next_request_params(_)
next_request_params(parsed) ==
    IF parsed = <<>> THEN <<>>
    ELSE LET e == parsed[Len(parsed)]
         IN  set_item(next_request_params(SubSeq(parsed, 1, Len(parsed) - 1)),
                      e.key, quote_all(e.values))

\* a request: the query left in its URL, and its `params`
Request(first, url_query, params) ==
    [method |-> "GET", first |-> first, url_query |-> url_query, params |-> params]

NoRequest == Request(FALSE, <<>>, <<>>)

\* lines 743-758, 675-689: the first request carries the call's api_version
first_request(api_version) ==
    Request(TRUE, <<>>, << [key |-> "api-version", values |-> <<api_version>>] >>)

\* ApplicationGroupsOperations, lines 760-775 (and 845-860): the link's path,
\* its parsed parameters, and the client's api-version over them
desktop_next_request(next_link) ==
    Request(FALSE, <<>>,
            set_item(next_request_params(parse_qs(next_link.query)),
                     "api-version", <<ConfigApiVersion>>))

\* DataFlowOperations, lines 691-700: HttpRequest("GET", next_link)
synapse_next_request(next_link) == Request(FALSE, next_link.query, <<>>)

\* lines 742-776, 674-701: `if not next_link` is true of None and of ""
prepare_request(service, api_version, next_link) ==
    IF next_link.kind # "url" THEN first_request(api_version)
    ELSE IF service = "desktopvirtualization" THEN desktop_next_request(next_link)
    ELSE synapse_next_request(next_link)

\* the values a request carries on the wire for `key`, in order
RECURSIVE values_in_query(_, _)
values_in_query(query, key) ==
    IF query = <<>> THEN <<>>
    ELSE (IF query[1].key = key THEN <<query[1].value>> ELSE <<>>)
            \o values_in_query(Tail(query), key)

RECURSIVE values_in_params(_, _)
values_in_params(params, key) ==
    IF params = <<>> THEN <<>>
    ELSE (IF params[1].key = key THEN params[1].values ELSE <<>>)
            \o values_in_params(Tail(params), key)

carried(request, key) ==
    values_in_query(request.url_query, key) \o values_in_params(request.params, key)

(***************************************************************************)
(* The item iterator.  A page the server answers with is [count, link]:    *)
(* its items are <<n, 1>> .. <<n, count>> for the n-th page served.        *)
(***************************************************************************)
PageItems(n, count) == [i \in 1..count |-> <<n, i>>]

\* a slip: an empty page ends the listing
extract_data_stops_on_empty(page) ==
    [next_link |-> IF page.link.kind = "url" /\ page.count > 0 THEN page.link ELSE NoneLink,
     count |-> page.count]

\* lines 778-783, 703-708: (deserialized.next_link or None, iter(list_of_elem))
extract_data(page) ==
    [next_link |-> IF page.link.kind = "url" THEN page.link ELSE NoneLink,
     count |-> page.count]

NoPager ==
    [state |-> "none", service |-> "none", api_version |-> ConfigApiVersion,
     continuation_token |-> NoneLink, did_a_call_already |-> FALSE,
     served |-> <<>>, yielded |-> <<>>, n_requests |-> 0,
     in_flight |-> NoRequest, error |-> "None",
     failed_page |-> [count |-> 0, link |-> "None"]]

\* lines 726-799, 660-724: the call only builds the ItemPaged; nothing is sent
ListPaged(service, api_version) ==
    /\ pager.state = "none"
    /\ pager' = [NoPager EXCEPT !.state = "ready", !.service = service,
                                !.api_version = api_version]
    /\ UNCHANGED <<client, sent, handles, responses, lro, retry, poll, ops>>

\* the pages the n-th answer may be, with links of L and item counts of C:
\* the chain is at most MaxPages long
PagesOver(L, C, n) ==
    {[count |-> c, link |-> l] :
        c \in C, l \in {k \in L : n = MaxPages => k.kind # "url"}}

\* the page iterator asks for the next page: get_next prepares the request
\* and hands it to the pipeline (lines 785-790, 710-715)
PageRequest ==
    /\ pager.state = "ready"
    /\ ~(pager.continuation_token.kind = "None" /\ pager.did_a_call_already)
    /\ pager' = [pager EXCEPT
            !.state = "waiting",
            !.n_requests = @ + 1,
            !.in_flight = prepare_request(pager.service, pager.api_version,
                                          pager.continuation_token)]
    /\ UNCHANGED <<client, sent, handles, responses, lro, retry, poll, ops>>

\* a slip: the page is extracted before its status is looked at
page_of_failed_response_extracted(status, page) == page.count

\* lines 793-797, 718-722: a response other than 200 raises before
\* extract_data sees it, so none of its items exists for the caller
page_of_failed_response(status, page) == 0

\* the answer arrives: the status check of get_next (lines 791-797, 716-722),
\* then extract_data; the items of the page are yielded in order
PageResponse(status, page) ==
    /\ pager.state = "waiting"
    /\ IF status # 200
       THEN pager' = [pager EXCEPT
                    !.state = "failed", !.error = error_for(status),
                    !.in_flight = NoRequest,
                    !.failed_page = [count |-> page.count, link |-> page.link.kind],
                    !.yielded = @ \o PageItems(pager.n_requests,
                                               page_of_failed_response(status, page))]
       ELSE LET got == extract_data(page)
            IN  pager' = [pager EXCEPT
                    !.state = "ready",
                    !.in_flight = NoRequest,
                    !.continuation_token = got.next_link,
                    !.did_a_call_already = TRUE,
                    !.served = Append(@, [count |-> page.count, link |-> page.link.kind]),
                    !.yielded = @ \o PageItems(pager.n_requests, got.count)]
    /\ UNCHANGED <<client, sent, handles, responses, lro, retry, poll, ops>>

\* the page iterator raises StopIteration: no continuation token after a call
PageStop ==
    /\ pager.state = "ready"
    /\ pager.continuation_token.kind = "None" /\ pager.did_a_call_already
    /\ pager' = [pager EXCEPT !.state = "done"]
    /\ UNCHANGED <<client, sent, handles, responses, lro, retry, poll, ops>>

(***************************************************************************)
(* The Retry Policy.  The sources import it (AsyncRetryPolicy, line 47 of  *)
(* _pipeline_client_async.py) and place it in the chain; its behaviour is  *)
(* taken from the design document, section 4.2:                            *)
(*   ATTEMPT -> (success | retryable failure -> backoff -> ATTEMPT)        *)
(*           -> (non-retryable failure | exhausted | success).             *)
(* An outcome of an attempt is [kind, status, retry_after]: kind is        *)
(* "response" or "transport_failure"; retry_after = 0 is no header.        *)
(* `delays` holds the delay chosen before each further attempt, `headers`  *)
(* the Retry-After value of the response that preceded it.                 *)
(***************************************************************************)
MaxAttempts == 3
MaxJitter == 1

Methods == {"GET", "PUT", "DELETE", "POST"}

IdempotentMethods == {"GET", "PUT", "DELETE"}

RetryableStatuses == {408, 429, 500, 502, 503, 504}

RetryStatuses == {200, 404, 429, 503}

RetryAfterValues == {0, 1, 5}

BaseDelays == {1, 2}

DelayCaps == {2, 4}

Outcomes ==
    [kind : {"response"}, status : RetryStatuses, retry_after : RetryAfterValues]
    \cup {[kind |-> "transport_failure", status |-> 0, retry_after |-> 0]}

NoOutcome == [kind |-> "none", status |-> 0, retry_after |-> 0]

NoRetry ==
    [state |-> "idle", method |-> "GET", max_attempts |-> 1, base |-> 1, cap |-> 2,
     attempts |-> 0, delays |-> <<>>, headers |-> <<>>, last |-> NoOutcome,
     result |-> NoOutcome]

RECURSIVE Pow2(_)
Pow2(n) == IF n = 0 THEN 1 ELSE 2 * Pow2(n - 1)

Min(a, b) == IF a < b THEN a ELSE b

\* the method of the request is not looked at
is_retryable_any_method(method, outcome) ==
    \/ outcome.kind = "transport_failure"
    \/ outcome.kind = "response" /\ outcome.status \in RetryableStatuses

\* retryable conditions: a transport failure or a status of the retryable
\* set, for a method that is idempotent
is_retryable(method, outcome) ==
    /\ method \in IdempotentMethods
    /\ \/ outcome.kind = "transport_failure"
       \/ outcome.kind = "response" /\ outcome.status \in RetryableStatuses

\* the cap wraps the delay around instead of saturating it
backoff_wraps(base, cap, n) == (base * Pow2(n - 1)) % (cap + 1)

\* exponential backoff from the base delay, capped; n is the number of the
\* attempt that has just failed
backoff(base, cap, n) == Min(cap, base * Pow2(n - 1))

\* the exhaustion test without its bound
may_retry_unbounded(r, outcome) == is_retryable(r.method, outcome)

\* another attempt follows a retryable failure while attempts remain
may_retry(r, outcome) ==
    is_retryable(r.method, outcome) /\ r.attempts + 1 < r.max_attempts

\* the header is added to the backoff instead of replacing it
next_delay_adds_header(r, outcome, jitter) ==
    backoff(r.base, r.cap, r.attempts + 1) + jitter + outcome.retry_after

\* the delay before the next attempt: Retry-After verbatim when the response
\* carries it, the jittered backoff otherwise
next_delay(r, outcome, jitter) ==
    IF outcome.retry_after > 0 THEN outcome.retry_after
    ELSE backoff(r.base, r.cap, r.attempts + 1) + jitter

\* exhaustion wraps the last failure in an error of the policy's own
surfaced_wrapped(r, outcome) ==
    IF is_retryable(r.method, outcome)
    THEN [kind |-> "retries_exhausted", status |-> 0, retry_after |-> 0]
    ELSE outcome

\* what the caller receives when no further attempt is made: the last
\* response or error, unchanged
surfaced(r, outcome) == outcome

\* a logical call enters the policy
RetryCall(method, max_attempts, base, cap) ==
    /\ retry.state = "idle"
    /\ retry' = [NoRetry EXCEPT !.state = "attempt", !.method = method,
                                !.max_attempts = max_attempts,
                                !.base = base, !.cap = cap]
    /\ UNCHANGED <<client, sent, handles, responses, lro, pager, poll, ops>>

\* one attempt is dispatched and its outcome received
RetryAttempt(outcome, jitter) ==
    /\ retry.state = "attempt"
    /\ IF may_retry(retry, outcome)
       THEN retry' = [retry EXCEPT
                !.state = "backoff",
                !.attempts = @ + 1,
                !.last = outcome,
                !.delays = Append(@, next_delay(retry, outcome, jitter)),
                !.headers = Append(@, outcome.retry_after)]
       ELSE retry' = [retry EXCEPT
                !.state = "done",
                !.attempts = @ + 1,
                !.last = outcome,
                !.result = surfaced(retry, outcome)]
    /\ UNCHANGED <<client, sent, handles, responses, lro, pager, poll, ops>>

\* the backoff sleep ends and the next attempt starts
RetryWake ==
    /\ retry.state = "backoff"
    /\ retry' = [retry EXCEPT !.state = "attempt"]
    /\ UNCHANGED <<client, sent, handles, responses, lro, pager, poll, ops>>

\* what the caller receives when the call is aborted by its cancellation or
\* deadline signal
CancellationFailure == [kind |-> "CancellationFailure", status |-> 0, retry_after |-> 0]

\* the abort reports the failure that was about to be retried
abort_with_last_failure(r) == [r EXCEPT !.state = "cancelled", !.result = r.last]

\* section 4.2, edge case, and section 5: the signal observed during the
\* backoff sleep ends the call at once with a cancellation-class error
abort(r) == [r EXCEPT !.state = "cancelled", !.result = CancellationFailure]

\* the cancellation or deadline signal is raised while the policy sleeps
RetryCancel ==
    /\ retry.state = "backoff"
    /\ retry' = abort(retry)
    /\ UNCHANGED <<client, sent, handles, responses, lro, pager, poll, ops>>

(***************************************************************************)
(* The pollers the begin_* operations return (lines 310-352, 488-525,      *)
(* 608-647).  The operations choose the polling method, its default        *)
(* interval and the deserialization callback; LROPoller, LROBasePolling    *)
(* and NoPolling are imported (lines 23-24) and their behaviour is taken   *)
(* from the design document, section 4.4, and from the docstrings of the   *)
(* operations.  `poll` follows one logical operation:                      *)
(*   op       : the begin_* operation that was called ("none" before);     *)
(*   server   : the server-side operation, [status, value];                *)
(*   original : the poller of the call that issued the initial request;    *)
(*   token    : the resume token taken from the original poller;           *)
(*   resumed  : the poller of the latest call made with that token.        *)
(* A response is [status, value, retry_after]; value 0 is no payload and   *)
(* retry_after 0 is no delay hint.                                         *)
(***************************************************************************)
MaxPolls == 2

\* self._config.polling_interval
ConfigPollingInterval == 3

\* the interval an own polling object of the caller was initialized with
CustomIntervals == {7}

\* polling_interval: absent, or the number the caller passed
PollingIntervalArgs == {[given |-> FALSE, value |-> 0], [given |-> TRUE, value |-> 5]}

ResultValues == {42}

DelayHints == {0, 2}

PolledStatuses == {200, 202, 204, 404}

Terminal == {"SUCCEEDED", "FAILED", "CANCELLED"}

Response(status, value, retry_after) ==
    [status |-> status, value |-> value, retry_after |-> retry_after]

\* the keyword is ignored: the configured interval is always used
lro_delay_config_only(polling_interval) == ConfigPollingInterval

\* lines 311, 489, 609: kwargs.pop("polling_interval", self._config.polling_interval)
lro_delay(polling_interval) ==
    IF polling_interval.given THEN polling_interval.value ELSE ConfigPollingInterval

\* lines 337-344: the polling method object, [kind, timeout]; the caller's
\* own object is taken as it is
new_polling_method(polling, polling_interval, custom_interval) ==
    [kind |-> polling_method(polling),
     timeout |-> CASE polling = "True" -> lro_delay(polling_interval)
                   [] polling = "False" -> 0
                   [] OTHER -> custom_interval]

\* lines 327-331 (DataFlowResource), 502-504 and 624-626 (None)
get_long_running_output(op, response) ==
    IF op = "create_or_update" THEN response.value ELSE 0

\* the poller object: LROPoller(client, initial_response, callback, method)
NewPoller(origin, polling, polling_interval, method, initial, callback) ==
    [origin |-> origin, polling |-> polling, polling_interval |-> polling_interval,
     method |-> method, initial |-> initial, callback |-> callback,
     state |-> "NOT_STARTED", polls |-> 0,
     hints |-> <<>>, waits |-> <<>>, result |-> 0,
     cancel_requested |-> FALSE, in_flight |-> FALSE]

NoPoller ==
    [origin |-> "none", polling |-> "True",
     polling_interval |-> [given |-> FALSE, value |-> 0],
     method |-> [kind |-> "None", timeout |-> 0],
     initial |-> Response(0, 0, 0), callback |-> "None",
     state |-> "NOT_STARTED", polls |-> 0,
     hints |-> <<>>, waits |-> <<>>, result |-> 0,
     cancel_requested |-> FALSE, in_flight |-> FALSE]

NoToken == [taken |-> FALSE, during |-> "none", status |-> 0, value |-> 0]

NoPoll ==
    [op |-> "none", server |-> [status |-> "none", value |-> 0],
     original |-> NoPoller, token |-> NoToken, resumed |-> NoPoller]

\* line 352: LROPoller(self._client, raw_result, get_long_running_output, polling_method)
first_poller(polling, polling_interval, method, raw_result) ==
    NewPoller("initial", polling, polling_interval, method, raw_result,
              "get_long_running_output")

\* the resume token: a snapshot of the tracked operation, here the initial
\* response it was created from
continuation_token(p) ==
    [taken |-> TRUE, during |-> p.state,
     status |-> p.initial.status, value |-> p.initial.value]

\* the resumed poller is built without the deserialization callback
resumed_poller_without_callback(polling, polling_interval, method, cont_token) ==
    NewPoller("token", polling, polling_interval, method,
              Response(cont_token.status, cont_token.value, 0), "None")

\* lines 345-351: LROPoller.from_continuation_token(polling_method=...,
\* continuation_token=cont_token, client=..., deserialization_callback=
\* get_long_running_output)
resumed_poller(polling, polling_interval, method, cont_token) ==
    NewPoller("token", polling, polling_interval, method,
              Response(cont_token.status, cont_token.value, 0),
              "get_long_running_output")

\* what the server-side operation is after the initial request
server_after(status, value) ==
    IF status = 202 THEN [status |-> "InProgress", value |-> 0]
    ELSE [status |-> "Succeeded", value |-> value]

\* a begin_* call without continuation_token: the initial request, then the
\* poller (lines 313-352)
BeginPolled(op, polling, polling_interval, custom_interval, status, value) ==
    /\ poll.op = "none"
    /\ LET call == begin(op, "None", polling, status)
           method == new_polling_method(polling, polling_interval, custom_interval)
           raw_result == Response(status, IF status = 200 THEN value ELSE 0, 0)
       IN  IF call.outcome = "poller"
           THEN poll' = [poll EXCEPT
                    !.op = op,
                    !.server = server_after(status, raw_result.value),
                    !.original = first_poller(polling, polling_interval, method, raw_result)]
           ELSE UNCHANGED poll
    /\ UNCHANGED <<client, sent, handles, responses, lro, pager, retry, ops>>

\* the caller saves the resume token of the original poller
ContinuationToken ==
    /\ poll.original.origin = "initial"
    /\ ~poll.token.taken
    /\ poll' = [poll EXCEPT !.token = continuation_token(poll.original)]
    /\ UNCHANGED <<client, sent, handles, responses, lro, pager, retry, ops>>

\* the same begin_* operation called with continuation_token = the saved
\* token (lines 345-351): no initial request, a poller rebuilt from the token
BeginResumed(polling, polling_interval, custom_interval) ==
    /\ poll.token.taken
    /\ poll.resumed.origin = "none"
    /\ LET call == begin(poll.op, "token", polling, 0)
           method == new_polling_method(polling, polling_interval, custom_interval)
       IN  /\ call.outcome = "resumed"
           /\ ~call.issued_initial
           /\ poll' = [poll EXCEPT
                  !.resumed = resumed_poller(polling, polling_interval, method, poll.token)]
    /\ UNCHANGED <<client, sent, handles, responses, lro, pager, retry, ops>>

\* the server-side operation ends
ServerFinish(status, value) ==
    /\ poll.server.status = "InProgress"
    /\ status \in {"Succeeded", "Failed", "Canceled"}
    /\ poll' = [poll EXCEPT !.server =
          [status |-> status, value |-> IF status = "Succeeded" THEN value ELSE 0]]
    /\ UNCHANGED <<client, sent, handles, responses, lro, pager, retry, ops>>

\* the deserialized result of a poller that has succeeded
deserialize(p, op, response) ==
    IF p.callback = "get_long_running_output"
    THEN get_long_running_output(op, response) ELSE 0

\* whether the poller has anything to poll: NoPolling never polls, and an
\* initial response that is final leaves nothing to track
tracks(p) == p.method.kind # "NoPolling" /\ p.initial.status = 202

\* the wait before the next poll: the delay hint of the last response, and
\* the default of the polling method without one
polling_delay(method, response) ==
    IF response.retry_after > 0 THEN response.retry_after ELSE method.timeout

\* a terminal poller goes on polling
poller_step_restless(p, op, response) ==
    CASE p.cancel_requested /\ p.state \in {"NOT_STARTED", "IN_PROGRESS"} ->
            [p EXCEPT !.state = "CANCELLED", !.in_flight = FALSE,
                      !.polls = @ + (IF p.in_flight THEN 1 ELSE 0)]
      [] p.state = "NOT_STARTED" -> [p EXCEPT !.state = "IN_PROGRESS"]
      [] p.state = "IN_PROGRESS" /\ ~tracks(p) ->
            [p EXCEPT !.state = "SUCCEEDED", !.result = deserialize(p, op, p.initial)]
      [] p.state = "IN_PROGRESS" /\ tracks(p) /\ response.status = "InProgress" ->
            [p EXCEPT !.in_flight = FALSE, !.polls = @ + 1, !.hints = Append(@, response.retry_after),
                      !.waits = Append(@, polling_delay(p.method, response))]
      [] p.state = "IN_PROGRESS" /\ tracks(p) /\ response.status = "Succeeded" ->
            [p EXCEPT !.in_flight = FALSE, !.polls = @ + 1, !.state = "SUCCEEDED",
                      !.result = deserialize(p, op, response)]
      [] p.state = "IN_PROGRESS" /\ tracks(p) /\ response.status = "Failed" ->
            [p EXCEPT !.in_flight = FALSE, !.polls = @ + 1, !.state = "FAILED"]
      [] p.state = "IN_PROGRESS" /\ tracks(p) /\ response.status = "Canceled" ->
            [p EXCEPT !.in_flight = FALSE, !.polls = @ + 1, !.state = "CANCELLED"]
      [] OTHER -> [p EXCEPT !.in_flight = FALSE, !.polls = @ + 1,
                            !.state = IF response.status = "InProgress"
                                      THEN "IN_PROGRESS" ELSE @]

\* section 4.4: one step of the poller.  A poller asked to cancel stops
\* here, between two polls, once the request that was in flight has been
\* answered.  Otherwise NOT_STARTED starts; IN_PROGRESS either ends without
\* a request (nothing to track) or issues one poll request and reads the
\* operation's status from the response; a terminal poller does nothing
poller_step(p, op, response) ==
    CASE p.cancel_requested /\ p.state \in {"NOT_STARTED", "IN_PROGRESS"} ->
            [p EXCEPT !.state = "CANCELLED", !.in_flight = FALSE,
                      !.polls = @ + (IF p.in_flight THEN 1 ELSE 0)]
      [] p.state = "NOT_STARTED" -> [p EXCEPT !.state = "IN_PROGRESS"]
      [] p.state = "IN_PROGRESS" /\ ~tracks(p) ->
            [p EXCEPT !.state = "SUCCEEDED", !.result = deserialize(p, op, p.initial)]
      [] p.state = "IN_PROGRESS" /\ tracks(p) /\ response.status = "InProgress" ->
            [p EXCEPT !.in_flight = FALSE, !.polls = @ + 1, !.hints = Append(@, response.retry_after),
                      !.waits = Append(@, polling_delay(p.method, response))]
      [] p.state = "IN_PROGRESS" /\ tracks(p) /\ response.status = "Succeeded" ->
            [p EXCEPT !.in_flight = FALSE, !.polls = @ + 1, !.state = "SUCCEEDED",
                      !.result = deserialize(p, op, response)]
      [] p.state = "IN_PROGRESS" /\ tracks(p) /\ response.status = "Failed" ->
            [p EXCEPT !.in_flight = FALSE, !.polls = @ + 1, !.state = "FAILED"]
      [] p.state = "IN_PROGRESS" /\ tracks(p) /\ response.status = "Canceled" ->
            [p EXCEPT !.in_flight = FALSE, !.polls = @ + 1, !.state = "CANCELLED"]
      [] OTHER -> p

\* the status response of the server, with the delay hint it chooses
StatusResponse(retry_after) ==
    [status |-> poll.server.status, value |-> poll.server.value,
     retry_after |-> retry_after]

\* the caller drives a poller (wait(), result(), done()): one step of it
PollerStep(which, retry_after) ==
    /\ which \in {"original", "resumed"}
    /\ poll[which].origin # "none"
    /\ poll[which].polls < MaxPolls \/ poll[which].cancel_requested
    /\ poll' = [poll EXCEPT ![which] = poller_step(@, poll.op, StatusResponse(retry_after))]
    /\ UNCHANGED <<client, sent, handles, responses, lro, pager, retry, ops>>

\* whether the next step of the poller sends a status request
issues_request(p) ==
    p.state = "IN_PROGRESS" /\ tracks(p) /\ ~p.in_flight /\ ~p.cancel_requested

\* the status request leaves; its answer is read by the step that follows
poll_request(p) == [p EXCEPT !.in_flight = TRUE]

PollerSend(which) ==
    /\ which \in {"original", "resumed"}
    /\ poll[which].origin # "none"
    /\ poll[which].polls < MaxPolls
    /\ issues_request(poll[which])
    /\ poll' = [poll EXCEPT ![which] = poll_request(@)]
    /\ UNCHANGED <<client, sent, handles, responses, lro, pager, retry, ops>>

\* the request to cancel ends the poller on the spot, whatever it is doing
request_cancel_abruptly(p) ==
    [p EXCEPT !.cancel_requested = TRUE, !.state = "CANCELLED"]

\* section 4.4, cancellation: the request is noted for the poll loop
request_cancel(p) == [p EXCEPT !.cancel_requested = TRUE]

\* the caller asks a poller that has not ended to cancel
PollerCancel(which) ==
    /\ which \in {"original", "resumed"}
    /\ poll[which].origin # "none"
    /\ poll[which].state \notin Terminal
    /\ ~poll[which].cancel_requested
    /\ poll' = [poll EXCEPT ![which] = request_cancel(@)]
    /\ UNCHANGED <<client, sent, handles, responses, lro, pager, retry, ops>>

(***************************************************************************)
(* The operations that return their result directly, and the initial calls *)
(* of the begin_* operations: ApplicationGroupsOperations get (287-343),   *)
(* create_or_update (404-488), delete (493-547), update (610-693), and     *)
(* DataFlowOperations get_data_flow (357-416) and the three _initial       *)
(* calls (220-274, 420-461, 529-576).  Each one builds its error map,      *)
(* merges the caller's error_map keyword into it, runs the pipeline and    *)
(* tests the status of the response.  `ops` counts the calls and keeps the *)
(* last one.                                                               *)
(***************************************************************************)
MaxOps == 2

Operations ==
    {"get", "create_or_update", "delete", "update",
     "get_data_flow", "create_or_update_data_flow_initial",
     "delete_data_flow_initial", "rename_data_flow_initial"}

OpStatuses == {200, 201, 202, 204, 304, 401, 404, 409, 500}

\* the error_map keyword: absent (status 0) or one entry of the caller's
ErrorMapArgs ==
    {[status |-> 0, error |-> "None"],
     [status |-> 404, error |-> "CallerError"],
     [status |-> 500, error |-> "CallerError"]}

\* every 2xx status counts as a success
success_statuses_any_2xx(op) == {200, 201, 202, 204}

\* lines 334, 475, 542, 684 (desktopvirtualization) and 263, 407, 456, 571
\* (synapse): if response.status_code not in [...]
success_statuses(op) ==
    CASE op \in {"get", "update", "get_data_flow"} -> {200}
      [] op = "create_or_update" -> {200, 201}
      [] op = "delete" -> {200, 204}
      [] op = "delete_data_flow_initial" -> {200, 202, 204}
      [] OTHER -> {200, 202}

\* lines 338, 479-483, 688 and 268-269, 411: the statuses whose response is
\* handed to self._deserialize
deserialized_statuses(op) ==
    CASE op \in {"get", "update", "get_data_flow"} -> {200}
      [] op = "create_or_update" -> {200, 201}
      [] op = "create_or_update_data_flow_initial" -> {200}
      [] OTHER -> {}

\* the conflict entry is missing from the map
default_error_kind_without_conflict(status) ==
    CASE status = 401 -> "ClientAuthenticationError"
      [] status = 404 -> "ResourceNotFoundError"
      [] status = 304 -> "ResourceNotModifiedError"
      [] OTHER -> "None"

\* lines 300-305 (and 223-228, 373-378, ...): the error map of an operation
default_error_kind(status) ==
    CASE status = 401 -> "ClientAuthenticationError"
      [] status = 404 -> "ResourceNotFoundError"
      [] status = 409 -> "ResourceExistsError"
      [] status = 304 -> "ResourceNotModifiedError"
      [] OTHER -> "None"

\* line 306: error_map.update(kwargs.pop("error_map", {}) or {})
merged_error_kind(error_map, status) ==
    IF error_map.status # 0 /\ error_map.status = status
    THEN error_map.error ELSE default_error_kind(status)

\* lines 335-336: map_error raises the mapped kind when the status is in the
\* map, and HttpResponseError(response=response) is raised otherwise
raised(error_map, status) ==
    IF merged_error_kind(error_map, status) # "None"
    THEN merged_error_kind(error_map, status) ELSE "HttpResponseError"

\* one call of an operation
operation(op, error_map, status) ==
    IF status \in success_statuses(op)
    THEN [op |-> op, error_map |-> error_map, status |-> status,
          outcome |-> "returned", error |-> "None", error_response |-> 0,
          deserialized |-> status \in deserialized_statuses(op)]
    ELSE [op |-> op, error_map |-> error_map, status |-> status,
          outcome |-> "raised", error |-> raised(error_map, status),
          error_response |-> status, deserialized |-> FALSE]

NoOperation ==
    [op |-> "none", error_map |-> [status |-> 0, error |-> "None"], status |-> 0,
     outcome |-> "none", error |-> "None", error_response |-> 0,
     deserialized |-> FALSE]

NoOps == [n_calls |-> 0, last |-> NoOperation]

Operation(op, error_map, status) ==
    /\ ops.n_calls < MaxOps
    /\ ops' = [n_calls |-> ops.n_calls + 1, last |-> operation(op, error_map, status)]
    /\ UNCHANGED <<client, sent, handles, responses, lro, pager, retry, poll>>

(***************************************************************************)
(* Specifications.  Each component has its own next-state relation; the    *)
(* others stay as they are initially.                                      *)
(***************************************************************************)
Init ==
    /\ client = NoClient
    /\ sent = 0
    /\ handles = <<>>
    /\ responses = <<>>
    /\ lro = NoLro
    /\ pager = NoPager
    /\ retry = NoRetry
    /\ poll = NoPoll
    /\ ops = NoOps

ClientInit == ClientInitOver(AllKwargs)

ClientInitDefault == ClientInitOver({NoKwargs})

NextClient ==
    \/ ClientInit
    \/ PipelineRun

SpecClient == Init /\ [][NextClient]_vars

NextHandle ==
    \/ ClientInitDefault
    \/ send_request
    \/ \E h \in 1..MaxHandles, via \in {"await", "aenter"} : AwaitHandle(h, via)
    \/ \E h \in 1..MaxHandles, status \in Statuses : PipelineReturn(h, status)
    \/ \E h \in 1..MaxHandles : PipelineRaise(h)
    \/ \E h \in 1..MaxHandles, how \in {"normal", "error"} : ScopeExit(h, how)
    \/ \E h \in 1..MaxHandles : HandleClose(h)

SpecHandle == Init /\ [][NextHandle]_vars

\* several calls in progress at once through one client, each awaited once,
\* started and completed in any order
NextCalls ==
    \/ ClientInitDefault
    \/ send_request_of(MaxCalls)
    \/ \E h \in 1..MaxCalls, via \in {"await", "aenter"} :
            /\ h \in 1..Len(handles)
            /\ handles[h].wrapped = "created"
            /\ AwaitHandle(h, via)
    \/ \E h \in 1..MaxCalls, status \in Statuses : PipelineReturn(h, status)
    \/ \E h \in 1..MaxCalls : PipelineRaise(h)

SpecCalls == Init /\ [][NextCalls]_vars

NextLro ==
    \E op \in BeginOps, cont_token \in ContTokens, polling \in PollingArgs,
       status \in InitialStatuses : Begin(op, cont_token, polling, status)

SpecLro == Init /\ [][NextLro]_vars

Services == {"desktopvirtualization", "synapse"}

NextPaging ==
    \/ \E service \in Services, v \in CallApiVersions : ListPaged(service, v)
    \/ PageRequest
    \/ \E status \in Statuses, page \in PagesOver(PlainLinks, 0..MaxItems, pager.n_requests) :
            PageResponse(status, page)
    \/ PageStop

SpecPaging == Init /\ [][NextPaging]_vars

\* the same listing against a server whose pages hold one item each and
\* whose links carry every query of LinkQueries
NextLinks ==
    \/ \E service \in Services, v \in CallApiVersions : ListPaged(service, v)
    \/ PageRequest
    \/ \E status \in Statuses, page \in PagesOver(Links, {1}, pager.n_requests) :
            PageResponse(status, page)
    \/ PageStop

SpecLinks == Init /\ [][NextLinks]_vars

NextRetry ==
    \/ \E method \in Methods, max_attempts \in 1..MaxAttempts,
          base \in BaseDelays, cap \in DelayCaps :
            RetryCall(method, max_attempts, base, cap)
    \/ \E outcome \in Outcomes, jitter \in 0..MaxJitter : RetryAttempt(outcome, jitter)
    \/ RetryWake
    \/ RetryCancel

SpecRetry == Init /\ [][NextRetry]_vars

NextPoller ==
    \/ \E op \in BeginOps, polling \in PollingArgs, polling_interval \in PollingIntervalArgs,
          custom_interval \in CustomIntervals, status \in PolledStatuses,
          value \in ResultValues :
            BeginPolled(op, polling, polling_interval, custom_interval, status, value)
    \/ ContinuationToken
    \/ \E polling \in PollingArgs, polling_interval \in PollingIntervalArgs,
          custom_interval \in CustomIntervals :
            BeginResumed(polling, polling_interval, custom_interval)
    \/ \E status \in {"Succeeded", "Failed", "Canceled"}, value \in ResultValues :
            ServerFinish(status, value)
    \/ \E which \in {"original", "resumed"}, retry_after \in DelayHints :
            PollerStep(which, retry_after)

SpecPoller == Init /\ [][NextPoller]_vars

\* a step of the poll loop with the status request and its answer as two
\* steps: either the answer of the request in flight is read, or the step
\* is one that sends nothing
PollerReceiveOrAdvance(which) ==
    /\ poll[which].in_flight \/ ~issues_request(poll[which])
    /\ \E retry_after \in DelayHints : PollerStep(which, retry_after)

\* one poller, with a caller who may ask it to cancel at any moment
NextCancel ==
    \/ \E op \in BeginOps, polling \in PollingArgs, polling_interval \in PollingIntervalArgs,
          custom_interval \in CustomIntervals, status \in PolledStatuses,
          value \in ResultValues :
            BeginPolled(op, polling, polling_interval, custom_interval, status, value)
    \/ \E status \in {"Succeeded", "Failed", "Canceled"}, value \in ResultValues :
            ServerFinish(status, value)
    \/ PollerSend("original")
    \/ PollerReceiveOrAdvance("original")
    \/ PollerCancel("original")

SpecCancel == Init /\ [][NextCancel]_vars

\* the poll loop keeps running once the poller exists
SpecCancelLive == SpecCancel /\ WF_vars(PollerReceiveOrAdvance("original"))

NextOps ==
    \E op \in Operations, error_map \in ErrorMapArgs, status \in OpStatuses :
        Operation(op, error_map, status)

SpecOps == Init /\ [][NextOps]_vars

\* the handles with the scheduling of the event loop: a pipeline call that
\* has started runs to its end; nothing makes the caller await a handle
SpecHandleLive ==
    /\ SpecHandle
    /\ \A h \in 1..MaxHandles :
          WF_vars(PipelineRaise(h) \/ \E status \in Statuses : PipelineReturn(h, status))

Next ==
    NextClient \/ NextHandle \/ NextCalls \/ NextLro \/ NextPaging \/ NextLinks \/ NextRetry
    \/ NextPoller \/ NextCancel \/ NextOps

Spec == Init /\ [][Next]_vars


(***************************************************************************)
(* Properties of the construction of the client (SpecClient).              *)
(***************************************************************************)
HasRetry(policies) == \E i \in 1..Len(policies) : isinstance_AsyncRetryPolicy(policies[i])

Constructed == client.state # "none" /\ ~client.kwargs.pipeline

\* a custom `policies` list without a Retry Policy, and per-retry policies
CustomWithoutRetry(kwargs) ==
    /\ kwargs.policies.given
    /\ ~HasRetry(kwargs.policies.items)
    /\ Len(as_list(kwargs.per_retry_policies)) > 0

\* C1 as claimed: a custom `policies` list that holds no Retry Policy, given
\* together with per-retry policies, always makes the construction raise.
C1_RaisesWheneverPoliciesLackRetry ==
    (Constructed /\ CustomWithoutRetry(client.kwargs)) => client.state = "failed"

\* C1, amended: when neither the custom `policies` list nor per_call_policies
\* holds a Retry Policy and per-retry policies are given, the construction
\* raises ValueError; no pipeline exists and no request has been sent.
C1_RaisesWhenChainLacksRetry ==
    (/\ Constructed
     /\ CustomWithoutRetry(client.kwargs)
     /\ ~HasRetry(as_list(client.kwargs.per_call_policies)))
    => /\ client.state = "failed"
       /\ client.error = "ValueError"
       /\ client.policies = <<>>
       /\ sent = 0

C1_Witness ==
    /\ client.state = "failed"
    /\ client.error = "ValueError"
    /\ Len(client.kwargs.policies.items) > 0
    /\ Len(as_list(client.kwargs.per_call_policies)) > 0
    /\ ~client.kwargs.per_retry_policies.iterable

\* the Retry Policy of a chain: the one of the default chain, or those of
\* the custom `policies` list
IsAnchor(policy) ==
    isinstance_AsyncRetryPolicy(policy) /\ policy.origin \in {"default", "policies"}

\* C7: in the default chain, and in a chain built from a custom `policies`
\* list that holds a Retry Policy, every per_call policy stands before the
\* Retry Policy and every per_retry policy after it.
C7_PerCallBeforeRetryBeforePerRetry ==
    (/\ client.state = "built"
     /\ client.own_pipeline
     /\ client.kwargs.policies.given => HasRetry(client.kwargs.policies.items))
    => LET chain == client.policies
       IN  /\ \A p \in Range(as_list(client.kwargs.per_call_policies)) : p \in Range(chain)
           /\ \A p \in Range(as_list(client.kwargs.per_retry_policies)) : p \in Range(chain)
           /\ \E j \in 1..Len(chain) : IsAnchor(chain[j])
           /\ \A i, j \in 1..Len(chain) :
                IsAnchor(chain[j]) =>
                    /\ chain[i].origin = "per_call" => i < j
                    /\ chain[i].origin = "per_retry" => j < i

C7_Witness ==
    /\ client.state = "built"
    /\ client.own_pipeline
    /\ client.kwargs.policies.given
    /\ Len(client.kwargs.policies.items) = 2
    /\ \A i \in 1..2 : isinstance_AsyncRetryPolicy(client.kwargs.policies.items[i])
    /\ Len(as_list(client.kwargs.per_call_policies)) = 2
    /\ Len(as_list(client.kwargs.per_retry_policies)) = 2
    /\ Len(client.policies) = 6

(***************************************************************************)
(* Properties of the response handle (SpecHandle).                         *)
(***************************************************************************)

\* C2 as claimed: once an await of a handle has returned a response, every
\* await of that handle (plain, or through the entry of a scope) returns
\* that same response, and the pipeline call has run once.
C2_EveryAwaitReturnsTheResponse ==
    \A h \in 1..Len(handles) :
        LET rs == handles[h].results
        IN  (Len(rs) > 0 /\ rs[1].kind = "response")
            => /\ \A i \in 1..Len(rs) : rs[i] = rs[1]
               /\ handles[h].runs = 1

\* C3: a scope that has been left has closed its response exactly once
\* through the exit, whichever way the body was left; a scope that is still
\* open has not.
C3_ScopeExitClosesOnce ==
    /\ \A h \in 1..Len(handles) :
        /\ handles[h].scope = "left" =>
              /\ handles[h].response # 0
              /\ responses[handles[h].response].exit_closes = 1
              /\ responses[handles[h].response].closes >= 1
        /\ handles[h].scope = "in" =>
              /\ handles[h].response # 0
              /\ responses[handles[h].response].exit_closes = 0
    /\ \A r \in 1..Len(responses) : responses[r].exit_closes <= 1

C3_Witness ==
    \E h \in 1..Len(handles) :
        /\ handles[h].scope = "left"
        /\ handles[h].left_by = "error"
        /\ handles[h].close_calls = 0
        /\ responses[handles[h].response].closes = 1

(***************************************************************************)
(* Properties of the begin_* operations (SpecLro).                         *)
(***************************************************************************)

\* C4: a begin_* call that is given a continuation token issues no initial
\* request, and a saved token rebuilds the poller; so there are never more
\* initial requests than calls made without a token.
C4_ResumeIssuesNoInitialRequest ==
    /\ lro.last.cont_token # "None" => ~lro.last.issued_initial
    /\ lro.last.cont_token = "token" => lro.last.outcome = "resumed"
    /\ lro.initial_requests <= lro.without_token

C4_Witness ==
    /\ lro.n_calls = 3
    /\ lro.without_token = 1
    /\ lro.initial_requests = 1
    /\ lro.last.outcome = "resumed"

(***************************************************************************)
(* Properties of the paged listings (SpecPaging, SpecLinks).               *)
(***************************************************************************)
RECURSIVE ItemsOf(_)
ItemsOf(served) ==
    IF served = <<>> THEN <<>>
    ELSE ItemsOf(SubSeq(served, 1, Len(served) - 1))
            \o PageItems(Len(served), served[Len(served)].count)

\* C5: the items yielded are those of the pages served, in order; the
\* listing ends only after a page without a continuation link, every page
\* before it (empty or not) carried one, and one request was made per page.
C5_YieldsEveryPageInOrder ==
    /\ pager.state \in {"ready", "done"} =>
          /\ pager.yielded = ItemsOf(pager.served)
          /\ pager.n_requests = Len(pager.served)
    /\ pager.state = "done" =>
          /\ Len(pager.served) > 0
          /\ pager.served[Len(pager.served)].link # "url"
          /\ \A n \in 1..(Len(pager.served) - 1) : pager.served[n].link = "url"

C5_Witness ==
    /\ pager.state = "done"
    /\ pager.served = << [count |-> 2, link |-> "url"], [count |-> 0, link |-> "url"],
                         [count |-> 1, link |-> "None"] >>
    /\ pager.yielded = << <<1, 1>>, <<1, 2>>, <<3, 1>> >>
    /\ pager.n_requests = 3

\* C6 as claimed: the request for the next page carries every parameter of
\* the link with its value, except api-version, which carries the version
\* of the listing.
C6_NextRequestKeepsLinkParameters ==
    (pager.state = "waiting" /\ pager.continuation_token.kind = "url")
    => LET query == pager.continuation_token.query
           request == pager.in_flight
       IN  \A i \in 1..Len(query) :
              IF query[i].key = "api-version"
              THEN carried(request, "api-version") \in
                      {<<ConfigApiVersion>>, <<pager.api_version>>}
              ELSE carried(request, query[i].key) = values_in_query(query, query[i].key)

(***************************************************************************)
(* Properties of the Retry Policy (SpecRetry).                             *)
(***************************************************************************)

\* C8: one logical call never makes more than max_attempts attempts, and an
\* attempt is only started while fewer than max_attempts have been made.
C8_AtMostMaxAttempts ==
    /\ retry.attempts <= retry.max_attempts
    /\ retry.state \in {"attempt", "backoff"} => retry.attempts < retry.max_attempts

C8_Witness ==
    /\ retry.state = "done"
    /\ retry.method \in IdempotentMethods
    /\ retry.max_attempts = 3
    /\ retry.attempts = 3
    /\ retry.last.status \in RetryableStatuses

\* C9: the delay that follows a response with a Retry-After header is the
\* value of the header.
C9_RetryAfterIsTheDelay ==
    \A i \in 1..Len(retry.delays) :
        retry.headers[i] > 0 => retry.delays[i] = retry.headers[i]

C9_Witness ==
    /\ retry.base = 2
    /\ retry.cap = 4
    /\ \E i \in 1..Len(retry.delays) : retry.headers[i] = 5 /\ retry.delays[i] = 5

\* C10: when the attempts are exhausted, the caller receives the outcome of
\* the last attempt as it was received.
C10_ExhaustionSurfacesLastOutcome ==
    retry.state = "done" =>
        /\ retry.result = retry.last
        /\ retry.result.kind \in {"response", "transport_failure"}

C10_Witness ==
    /\ retry.state = "done"
    /\ retry.max_attempts > 1
    /\ retry.attempts = retry.max_attempts
    /\ is_retryable(retry.method, retry.last)
    /\ retry.result.status = 503
    /\ retry.result.retry_after = 5


(***************************************************************************)
(* Properties of the Retry Policy, continued (SpecRetry).                  *)
(***************************************************************************)
\* C11: a cancellation or timeout signal raised during the backoff sleep
\* aborts the call before another attempt is dispatched: the attempt count
\* stays what it was, the call fails with a cancellation-class error, and
\* nothing happens in the call afterwards.
C11_CancelDuringBackoffAborts ==
    [][/\ (retry.state = "backoff" /\ retry'.state \notin {"backoff", "attempt"}) =>
             /\ retry'.state = "cancelled"
             /\ retry'.attempts = retry.attempts
             /\ retry'.result.kind = "CancellationFailure"
       /\ retry.state = "cancelled" => retry' = retry]_vars

C11_Witness ==
    /\ retry.state = "cancelled"
    /\ retry.attempts = 1
    /\ retry.max_attempts > 1
    /\ retry.last.kind = "transport_failure"
    /\ retry.result = CancellationFailure

\* C17: another attempt starts only after a transport failure or a response
\* whose status is 408, 429, 500, 502, 503 or 504, and only for GET, PUT or
\* DELETE; a response with any other status, and any failure of a POST, ends
\* the call after that attempt.
C17_RetriesOnlyRetryableFailures ==
    [][retry.state = "attempt" /\ retry'.state # "attempt" =>
          LET outcome == retry'.last
              retryable ==
                  \/ outcome.kind = "transport_failure"
                  \/ /\ outcome.kind = "response"
                     /\ outcome.status \in {408, 429, 500, 502, 503, 504}
          IN  /\ retry'.state = "backoff" =>
                    retryable /\ retry.method \in {"GET", "PUT", "DELETE"}
              /\ ~retryable => retry'.state = "done"
              /\ retry.method = "POST" => retry'.state = "done"]_vars

C17_Witness ==
    /\ retry.state = "done"
    /\ retry.method = "POST"
    /\ retry.max_attempts = 3
    /\ retry.attempts = 1
    /\ retry.last.status = 503

NoRetryAfter == \A i \in 1..Len(retry.headers) : retry.headers[i] = 0

Pollers == {"original", "resumed"}

BothEnded ==
    /\ poll.resumed.origin = "token"
    /\ poll.token.during = "IN_PROGRESS"
    /\ poll.original.state \in Terminal
    /\ poll.resumed.state \in Terminal

ConfiguredDefault(p) ==
    IF p.polling_interval.given THEN p.polling_interval.value ELSE ConfigPollingInterval

WaitsFollowHintOrDefault(p) ==
    \A i \in 1..Len(p.waits) :
        p.waits[i] = IF p.hints[i] > 0 THEN p.hints[i] ELSE ConfiguredDefault(p)

\* C19 as stated: every wait of a poller between two polls is the delay hint
\* of the last response when it carries one, and otherwise the
\* polling_interval keyword if passed, else the configured polling interval.
C19_WaitIsHintOrConfiguredDefault ==
    \A w \in Pollers : WaitsFollowHintOrDefault(poll[w])

\* C19, amended: the same, for a poller with the default polling method
\* (polling=True).
C19_DefaultMethodWaitIsHintOrConfiguredDefault ==
    \A w \in Pollers : poll[w].polling = "True" => WaitsFollowHintOrDefault(poll[w])

C19_Witness ==
    /\ poll.original.polling = "True"
    /\ poll.original.polling_interval.given
    /\ poll.original.hints = <<2, 0>>
    /\ poll.original.waits = <<2, 5>>
    /\ poll.resumed.polling = "True"
    /\ ~poll.resumed.polling_interval.given
    /\ poll.resumed.waits = <<3>>

\* C20: with polling=False the poller issues no poll request; with
\* polling=True the polling method is the default one; any other value is the
\* polling method, as the caller made it.
C20_PollingArgumentChoosesTheMethod ==
    \A w \in Pollers :
        poll[w].origin # "none" =>
            /\ poll[w].polling = "False" =>
                  poll[w].method.kind = "NoPolling" /\ poll[w].polls = 0
            /\ poll[w].polling = "True" => poll[w].method.kind = "LROBasePolling"
            /\ poll[w].polling = "custom" =>
                  /\ poll[w].method.kind = "custom"
                  /\ poll[w].method.timeout \in CustomIntervals

C20_Witness ==
    /\ poll.original.polling = "False"
    /\ poll.original.initial.status = 202
    /\ poll.original.state = "SUCCEEDED"
    /\ poll.original.polls = 0
    /\ poll.server.status = "InProgress"
    /\ poll.resumed.polling = "custom"
    /\ poll.resumed.polls = 2

(***************************************************************************)
(* Properties of the handle, continued (SpecHandleLive).                   *)
(***************************************************************************)
\* C14: the pipeline call of every handle send_request has returned
\* eventually runs, also when the caller neither awaits nor enters it.
C14_EveryHandleEventuallyRuns ==
    \A h \in 1..MaxHandles :
        (Len(handles) >= h) ~> (Len(handles) >= h /\ handles[h].runs > 0)

(***************************************************************************)
(* Properties of the direct operations (SpecOps).                          *)
(***************************************************************************)
StatusErrorKind(status) ==
    CASE status = 401 -> "ClientAuthenticationError"
      [] status = 404 -> "ResourceNotFoundError"
      [] status = 409 -> "ResourceExistsError"
      [] status = 304 -> "ResourceNotModifiedError"
      [] OTHER -> "HttpResponseError"

\* C15 as stated: a call that raises raises the authentication, not-found,
\* conflict or not-modified error for 401, 404, 409, 304, and for every
\* other status the generic HTTP failure, which carries the response.
C15_StatusAloneChoosesTheError ==
    ops.last.outcome = "raised" =>
        /\ ops.last.error = StatusErrorKind(ops.last.status)
        /\ ops.last.error_response = ops.last.status

\* C15, amended: the same for every status the caller's error_map keyword
\* does not name; a status it names raises the caller's error kind.
C15_StatusChoosesTheErrorUnlessCallerMapsIt ==
    ops.last.outcome = "raised" =>
        /\ ops.last.error =
              IF ops.last.error_map.status = ops.last.status
              THEN ops.last.error_map.error
              ELSE StatusErrorKind(ops.last.status)
        /\ ops.last.error_response = ops.last.status

C15_Witness ==
    /\ ops.last.outcome = "raised"
    /\ ops.last.op = "get"
    /\ ops.last.status = 409
    /\ ops.last.error_map.status = 404
    /\ ops.last.error = "ResourceExistsError"

\* the success sets as the claim lists them
ClaimedSuccess(op) ==
    CASE op \in {"get", "update", "get_data_flow"} -> {200}
      [] op = "create_or_update" -> {200, 201}
      [] op = "delete" -> {200, 204}
      [] op = "delete_data_flow_initial" -> {200, 202, 204}
      [] OTHER -> {200, 202}

\* C16: an operation returns only for a status of its success set (get and
\* update 200; create_or_update 200, 201; delete 200, 204; the initial call
\* of a begin_* operation 200, 202, and 204 for delete); for every other
\* status it raises and the response is not deserialized.
C16_ReturnsOnlyOnSuccessStatus ==
    ops.last.op # "none" =>
        /\ ops.last.outcome = "returned" <=> ops.last.status \in ClaimedSuccess(ops.last.op)
        /\ ops.last.status \notin ClaimedSuccess(ops.last.op) =>
              ops.last.outcome = "raised" /\ ~ops.last.deserialized

C16_Witness ==
    /\ ops.n_calls = 2
    /\ ops.last.op = "create_or_update"
    /\ ops.last.status = 202
    /\ ops.last.outcome = "raised"
    /\ ~ops.last.deserialized

(***************************************************************************)
(* Properties of the construction of the client, continued (SpecClient).   *)
(***************************************************************************)
DefaultChain ==
    client.state = "built" /\ client.own_pipeline /\ ~client.kwargs.policies.given

Position(chain, name) ==
    CHOOSE i \in 1..Len(chain) : chain[i].origin = "default" /\ chain[i].name = name

\* every policy named in `names` stands after the Retry Policy of the default
\* chain and after every per_retry policy
AfterRetryAndPerRetry(chain, names) ==
    \A name \in names :
        /\ \E i \in 1..Len(chain) : chain[i].origin = "default" /\ chain[i].name = name
        /\ Position(chain, "retry_policy") < Position(chain, name)
        /\ \A i \in 1..Len(chain) :
              chain[i].origin = "per_retry" => i < Position(chain, name)

\* C23 as stated: in the default chain the logging, distributed tracing and
\* response-content decoding policies each stand after the Retry Policy and
\* after every per_retry policy.
C23_TerminalPoliciesFollowRetry ==
    DefaultChain =>
        AfterRetryAndPerRetry(client.policies,
            {"logging_policy", "DistributedTracingPolicy", "http_logging_policy",
             "ContentDecodePolicy"})

\* C23, amended: in the default chain the logging, distributed tracing and
\* HTTP logging policies each stand after the Retry Policy and after every
\* per_retry policy; the response-content decoding policy stands before the
\* Retry Policy and before every per_call policy.
C23_LoggingAndTracingFollowRetry ==
    DefaultChain =>
        /\ AfterRetryAndPerRetry(client.policies,
              {"logging_policy", "DistributedTracingPolicy", "http_logging_policy"})
        /\ Position(client.policies, "ContentDecodePolicy")
              < Position(client.policies, "retry_policy")
        /\ \A i \in 1..Len(client.policies) :
              client.policies[i].origin = "per_call" =>
                  Position(client.policies, "ContentDecodePolicy") < i

C23_Witness ==
    /\ DefaultChain
    /\ Len(as_list(client.kwargs.per_call_policies)) = 2
    /\ Len(as_list(client.kwargs.per_retry_policies)) = 2
    /\ Len(client.policies) = 16

CustomChain ==
    client.state = "built" /\ client.own_pipeline /\ client.kwargs.policies.given

\* the position of the last Retry Policy instance of a list, 0 without one
RECURSIVE LastRetryIn(_)
LastRetryIn(list) ==
    IF list = <<>> THEN 0
    ELSE IF list[Len(list)].kind = "retry" THEN Len(list)
    ELSE LastRetryIn(SubSeq(list, 1, Len(list) - 1))

InsertedAfter(list, n, inserted) ==
    SubSeq(list, 1, n) \o inserted \o SubSeq(list, n + 1, Len(list))

\* C25 as stated: the chain built from a `policies` list is the per_call
\* policies, then `policies` up to and including its last Retry Policy, then
\* the per_retry policies, then the rest of `policies`.
C25_ChainSplitsPoliciesAtItsLastRetry ==
    CustomChain =>
        client.policies =
            as_list(client.kwargs.per_call_policies)
            \o InsertedAfter(client.kwargs.policies.items,
                             LastRetryIn(client.kwargs.policies.items),
                             as_list(client.kwargs.per_retry_policies))

\* C25, amended: the chain built from a `policies` list is the per_call
\* policies followed by `policies`, with the per_retry policies put in right
\* after the last Retry Policy instance of that whole sequence, which is a
\* per_call policy when `policies` holds no Retry Policy.
C25_ChainSplitsAtTheLastRetryOfPerCallAndPolicies ==
    CustomChain =>
        LET supplied == as_list(client.kwargs.per_call_policies)
                            \o client.kwargs.policies.items
        IN  client.policies =
                IF as_list(client.kwargs.per_retry_policies) = <<>> THEN supplied
                ELSE InsertedAfter(supplied, LastRetryIn(supplied),
                                   as_list(client.kwargs.per_retry_policies))

C25_Witness ==
    /\ CustomChain
    /\ Len(client.kwargs.policies.items) = 2
    /\ client.kwargs.policies.items[1].kind = "retry"
    /\ client.kwargs.policies.items[2].kind = "other"
    /\ Len(as_list(client.kwargs.per_call_policies)) = 2
    /\ Len(as_list(client.kwargs.per_retry_policies)) = 2
    /\ client.policies[4].origin = "per_retry"
    /\ client.policies[6].origin = "policies"

\* C30: the construction leaves the caller's policies, per_call_policies and
\* per_retry_policies as they were, whether it builds or raises, so the same
\* arguments build the same chain again.
C30_BuildLeavesTheArgumentsAlone ==
    Constructed =>
        /\ client.kwargs_after = client.kwargs
        /\ build_pipeline(client.kwargs_after).error = client.error
        /\ build_pipeline(client.kwargs_after).policies = client.policies

C30_Witness ==
    /\ client.state = "built"
    /\ client.own_pipeline
    /\ client.kwargs.policies.given
    /\ Len(client.kwargs.policies.items) = 2
    /\ client.kwargs.per_call_policies.iterable
    /\ Len(client.kwargs.per_call_policies.items) = 1
    /\ Len(as_list(client.kwargs.per_retry_policies)) = 1
    /\ Len(client.policies) = 4

(***************************************************************************)
(* Properties of the response handle, continued (SpecHandle).              *)
(***************************************************************************)
\* C24: whatever status the pipeline returns, the await of the handle yields
\* that response, the whole pipeline response when
\* _return_pipeline_response is set and its HTTP response otherwise; no
\* error is raised on account of the status.
C24_AwaitYieldsTheResponseWhateverTheStatus ==
    \A r \in 1..Len(responses) :
        LET hd == handles[responses[r].handle]
        IN  /\ \E i \in 1..Len(hd.results) :
                  hd.results[i].kind = "response" /\ hd.results[i].resp = r
            /\ \A i \in 1..Len(hd.results) :
                  hd.results[i].kind \in {"response", "RuntimeError", "PipelineError"}
            /\ responses[r].returned =
                  IF hd.return_pipeline_response THEN "pipeline_response"
                  ELSE "http_response"

C24_Witness ==
    \E r \in 1..Len(responses) :
        /\ responses[r].status = 500
        /\ responses[r].returned = "pipeline_response"
        /\ handles[responses[r].handle].results = << [kind |-> "response", resp |-> r] >>

(***************************************************************************)
(* Properties of the begin_* operations, continued (SpecLro).              *)
(***************************************************************************)
\* C26: every begin_* call either issues the initial request, once, or
\* reconstructs the poller from the continuation token; for no
\* continuation_token does it skip both and go on to build a poller without
\* an initial response.
C26_InitialRequestOrReconstruction ==
    lro.n_calls > 0 =>
        /\ lro.last.issued_initial # (lro.last.outcome = "resumed")
        /\ lro.last.issued_initial \/ lro.last.outcome = "resumed"
        /\ lro.last.outcome # "UnboundLocalError"

(***************************************************************************)
(* Properties of the paged listings, continued (SpecPaging).               *)
(***************************************************************************)
\* C27: every page request of one listing of ApplicationGroupsOperations
\* carries the same API version: the version of the first page request,
\* which is the one the caller passed for the call, is the version of every
\* continuation request.
C27_EveryPageRequestCarriesTheCallVersion ==
    (pager.service = "desktopvirtualization" /\ pager.state = "waiting") =>
        carried(pager.in_flight, "api-version") = << pager.api_version >>

(***************************************************************************)
(* Properties of the response handle, continued (SpecHandle).              *)
(***************************************************************************)
\* C28: a call of close() on a handle whose await has returned a response
\* closes that response, whether the response was obtained by a plain await
\* or by entering the handle as a scope.
C28_CloseClosesTheAwaitedResponse ==
    [][\A h \in 1..Len(handles) :
          handles'[h].close_calls = handles[h].close_calls + 1 =>
              \A i \in 1..Len(handles[h].results) :
                  handles[h].results[i].kind = "response" =>
                      /\ handles'[h].close_errors = handles[h].close_errors
                      /\ responses'[handles[h].results[i].resp].closes
                            = responses[handles[h].results[i].resp].closes + 1]_vars

(***************************************************************************)
(* Properties of the paged listings, continued (SpecPaging).               *)
(***************************************************************************)
\* C29: when a page request is answered with a status other than 200 the
\* listing raises the mapped error; what was yielded is every item of the
\* earlier pages, in order, and no item of the failed page.
C29_FailedPageYieldsNothing ==
    pager.state = "failed" =>
        /\ pager.error \in {"ClientAuthenticationError", "ResourceNotFoundError",
                            "ResourceExistsError", "ResourceNotModifiedError",
                            "HttpResponseError"}
        /\ Len(pager.served) = pager.n_requests - 1
        /\ pager.yielded = ItemsOf(pager.served)

\* C29, the other half: after the failure no further page request is issued.
C29_NoRequestAfterFailure ==
    [][pager.state = "failed" => pager' = pager]_vars

C29_FailedPageYieldsNothingAndStops ==
    []C29_FailedPageYieldsNothing /\ C29_NoRequestAfterFailure

C29_Witness ==
    /\ pager.state = "failed"
    /\ pager.error = "ResourceNotFoundError"
    /\ pager.n_requests = 2
    /\ pager.served[1].count = 2
    /\ pager.failed_page.count = 2
    /\ Len(pager.yielded) = 2

(***************************************************************************)
(* Properties of calls in progress at once (SpecCalls).                    *)
(***************************************************************************)
ResponsesOf(h) == {r \in 1..Len(responses) : responses[r].handle = h}

\* what a handle holds is the response of its own call, returned the way
\* its own call asked for
OwnResponseOnly(h) ==
    /\ Cardinality(ResponsesOf(h)) <= 1
    /\ \A i \in 1..Len(handles[h].results) :
          handles[h].results[i].kind = "response" =>
              handles[h].results[i].resp \in ResponsesOf(h)
    /\ handles[h].response # 0 => handles[h].response \in ResponsesOf(h)
    /\ \A r \in ResponsesOf(h) :
          /\ \E i \in 1..Len(handles[h].results) :
                handles[h].results[i] = Outcome("response", r)
          /\ responses[r].returned = returned_object(handles[h].return_pipeline_response)

\* a step of one call leaves the handles and the responses of the other
\* calls as they were
StepOfOneCall ==
    \A h \in 1..Len(handles) :
        handles'[h] # handles[h] =>
            /\ \A g \in 1..Len(handles) : g # h => handles'[g] = handles[g]
            /\ \A r \in 1..Len(responses) :
                  responses'[r] # responses[r] => responses[r].handle = h

\* C22: with several calls of one client in progress at once, in any
\* interleaving, every handle yields the response of its own request, and
\* no step of one call changes the state of another call.
C22_ConcurrentCallsDoNotInterfere ==
    [](\A h \in 1..Len(handles) : OwnResponseOnly(h)) /\ [][StepOfOneCall]_vars

\* the second call is inside its async-with body, holding its response,
\* while the first call, made with the other setting, is still running
C22_Witness ==
    /\ Len(handles) = 2
    /\ handles[1].return_pipeline_response /\ ~handles[2].return_pipeline_response
    /\ handles[1].wrapped = "running" /\ handles[1].results = <<>>
    /\ handles[2].scope = "in" /\ handles[2].response = 1
    /\ handles[2].results = << Outcome("response", 1) >>
    /\ responses = << NewResponse(2, 500, "http_response") >>

(***************************************************************************)
(* Properties of the cancellation of a poller (SpecCancelLive).            *)
(***************************************************************************)
\* a poller is never CANCELLED with a request in flight
NeverCancelledMidRequest ==
    poll.original.state = "CANCELLED" => ~poll.original.in_flight

\* once cancellation is requested no further status request is sent, the
\* request itself changes neither the state of the poller nor the request
\* in flight, and the step that cancels is the one that reads the answer
\* of the request in flight, if there is one
StopsBetweenPolls ==
    /\ (poll.original.cancel_requested /\ poll'.original.in_flight)
          => poll.original.in_flight
    /\ (~poll.original.cancel_requested /\ poll'.original.cancel_requested)
          => /\ poll'.original.state = poll.original.state
             /\ poll'.original.in_flight = poll.original.in_flight
             /\ poll'.original.polls = poll.original.polls
    /\ (poll.original.state # "CANCELLED" /\ poll'.original.state = "CANCELLED"
          /\ poll.original.in_flight)
          => poll'.original.polls = poll.original.polls + 1

CancelPending ==
    poll.original.cancel_requested /\ poll.original.state \notin Terminal

\* C21: after cancellation is requested the poll loop stops at the next
\* point between two polls, never with a request in flight (the request in
\* flight is answered first), and the poller becomes CANCELLED.
C21_CancelStopsBetweenPolls ==
    /\ []NeverCancelledMidRequest
    /\ [][StopsBetweenPolls]_vars
    /\ [][CancelPending => poll'.original.state \in {"CANCELLED", poll.original.state}]_vars
    /\ (CancelPending ~> poll.original.state = "CANCELLED")

\* cancellation was requested with the second status request in flight; the
\* poller ended CANCELLED after that request was answered, although the
\* operation itself ran to its end on the server
C21_Witness ==
    /\ poll.original.cancel_requested
    /\ poll.original.state = "CANCELLED"
    /\ poll.original.polls = 2
    /\ Len(poll.original.waits) = 1
    /\ poll.server.status = "Succeeded"

====
